---- MODULE Spec2Model ----
(***************************************************************************)
(* Model of the handyman recommendation service.                           *)
(*                                                                         *)
(*   src/src/ml_model.py    HandymanMLSystem (the recommendation engine)   *)
(*   src/src/api_server.py  init_ml_system, search_workers (Flask layer)   *)
(*   src/src/utils.py       validate_query (the module api_server imports) *)
(*   src/src/utils_py.py    validate_query (the documented variant)        *)
(*   src/run.py             _ensure_ml_ready, _reload, _lazy_init, _health *)
(*   src/run_py.py          start-up: init_ml_system() then app.run()      *)
(*                                                                         *)
(* Numbers.  Probabilities are integer percents (0..100), similarities are *)
(* integer hundredths, ratings are integer tenths of a star, distances are *)
(* integer kilometres, and every score is kept multiplied by 10, so that   *)
(* the arithmetic of the scoring loop is exact:                            *)
(*     service_score  = (p/100) * 70        -> 7 * p                       *)
(*     distance_score = max(0, 20 - d*0.2)  -> max(0, 200 - 2*d)           *)
(*     quality_score  = ((r/10)/5.0) * 10   -> 2 * r                       *)
(***************************************************************************)
EXTENDS Integers, Sequences, FiniteSets, TLC

(***************************************************************************)
(* Bounds of the model.                                                    *)
(***************************************************************************)
\* longest catalog drawn from ProviderPool
MaxCatalogLen == 2

(***************************************************************************)
(* Generic helpers.                                                        *)
(***************************************************************************)
Max(a, b) == IF a >= b THEN a ELSE b

Min(a, b) == IF a <= b THEN a ELSE b

Abs(a) == IF a >= 0 THEN a ELSE 0 - a

Range(s) == {s[i] : i \in DOMAIN s}

\* s[:k] of Python: a negative k counts from the end
PySlice(s, k) ==
    IF k >= 0 THEN SubSeq(s, 1, Min(k, Len(s)))
    ELSE SubSeq(s, 1, Max(0, Len(s) + k))

\* list.sort(key=..., reverse=True): a stable sort, largest key first, equal
\* keys staying in their original order; key[i] is the key of s[i]
StableSortDesc(s, key) ==
    LET n == Len(s)
        rank(i) == 1 + Cardinality({j \in 1..n :
                        \/ key[j] > key[i]
                        \/ (key[j] = key[i] /\ j < i)})
    IN  [p \in 1..n |-> s[CHOOSE i \in 1..n : rank(i) = p]]

(***************************************************************************)
(* The fixed data of a trained engine.                                     *)
(***************************************************************************)
\* label_encoder.classes_: the keys of service_training_examples, sorted
classes_ ==
    << "ac_repair", "appliance_repair", "carpentry", "cleaning",
       "electrical", "flooring", "gardening", "general_maintenance",
       "masonry", "painting", "plumbing", "roofing" >>

\* the gazetteer, abridged to three of its entries; a coordinate pair is a
\* position on a kilometre grid
location_names == << "colombo", "kandy", "galle" >>

location_data ==
    [ colombo |-> << 0, 0 >>, kandy |-> << 40, 60 >>, galle |-> << -50, 30 >> ]

\* geodesic(a, b).kilometers: a distance on the grid (zero exactly between
\* equal points, symmetric, never negative)
geodesic(a, b) == Abs(a[1] - b[1]) + Abs(a[2] - b[2])

\* the query texts of the model
Texts == { "leak kandy", "build wall", "help", "fix wiring", "roof galle" }

\* service_classifier.predict_proba(embedding)[0] of the trained classifier:
\* percents in the order of classes_, summing to 100
predict_proba(text) ==
    CASE text = "leak kandy" -> << 0, 0, 0, 5, 20, 0, 0, 0, 0, 0, 70, 5 >>
      [] text = "build wall" -> << 0, 0, 25, 0, 0, 25, 0, 0, 25, 25, 0, 0 >>
      [] text = "help"       -> << 9, 9, 9, 9, 8, 8, 8, 8, 8, 8, 8, 8 >>
      [] text = "fix wiring" -> << 0, 0, 0, 0, 100, 0, 0, 0, 0, 0, 0, 0 >>
      [] OTHER               -> << 0, 0, 0, 10, 0, 0, 0, 0, 0, 0, 10, 80 >>

\* cosine_similarity(text_embedding, location_embeddings)[0]: hundredths, in
\* the order of location_names
cosine_similarity(text) ==
    CASE text = "leak kandy" -> << 30, 80, 20 >>
      [] text = "build wall" -> << 10, 25, 5 >>
      [] text = "help"       -> << 20, 20, 20 >>
      [] text = "fix wiring" -> << 30, 30, 26 >>
      [] OTHER               -> << 5, 10, 60 >>

(***************************************************************************)
(* Datasets.  A provider record of the 'workers' list carries an id, a     *)
(* service_type, a rating and a location group.  rating_num is whether the *)
(* rating is a number (rating / 5.0 raises TypeError on anything else),    *)
(* has_lat / has_lng are whether the location group has the key, geo_ok is *)
(* whether geodesic accepts the coordinates (it raises ValueError on a     *)
(* latitude outside [-90, 90] or on a value that is no number).            *)
(***************************************************************************)
Provider(id, service_type, rating, coords) ==
    [ id |-> id, service_type |-> service_type,
      rating |-> rating, rating_num |-> TRUE,
      has_lat |-> TRUE, lat |-> coords[1],
      has_lng |-> TRUE, lng |-> coords[2], geo_ok |-> TRUE ]

ProviderPool ==
    { Provider(1, "plumbing", 45, location_data.kandy),
      Provider(2, "plumbing", 45, location_data.kandy),
      Provider(3, "plumbing", 50, location_data.kandy),
      \* a rating above 5 stars
      Provider(4, "electrical", 60, location_data.colombo),
      \* a rating below 0, far from every gazetteer entry
      Provider(5, "plumbing", -300, << 240, 60 >>),
      \* a location group without coordinates
      [ Provider(6, "painting", 40, << 0, 0 >>)
            EXCEPT !.has_lat = FALSE, !.has_lng = FALSE ],
      \* coordinates geodesic rejects
      [ Provider(7, "plumbing", 40, << 0, 0 >>) EXCEPT !.geo_ok = FALSE ],
      Provider(8, "ac_repair", 30, location_data.galle),
      \* a rating that is no number
      [ Provider(9, "electrical", 0, location_data.colombo)
            EXCEPT !.rating_num = FALSE ],
      \* another location group without coordinates
      [ Provider(10, "roofing", 40, << 0, 0 >>)
            EXCEPT !.has_lat = FALSE, !.has_lng = FALSE ] }

\* the 'workers' lists of the model: the providers of a list are distinct
RECURSIVE CatalogsOfLen(_)
CatalogsOfLen(n) ==
    IF n = 0 THEN { <<>> }
    ELSE { Append(c, w) : c \in CatalogsOfLen(n - 1), w \in ProviderPool }

Catalogs ==
    { c \in UNION { CatalogsOfLen(n) : n \in 0..MaxCatalogLen } :
        \A i, j \in DOMAIN c : i # j => c[i] # c[j] }

\* what json.load / load_json_dataset can hand over: None, or a dict whose
\* keys are 'workers' (has_workers), another list key such as 'providers'
\* (has_other), both or neither
PyNone == [ is_none |-> TRUE, has_workers |-> FALSE, workers |-> <<>>,
            has_other |-> FALSE ]

Dataset(has_workers, workers, has_other) ==
    [ is_none |-> FALSE, has_workers |-> has_workers, workers |-> workers,
      has_other |-> has_other ]

Payloads ==
    { PyNone, Dataset(FALSE, <<>>, FALSE), Dataset(FALSE, <<>>, TRUE) }
        \cup { Dataset(TRUE, c, FALSE) : c \in Catalogs }

\* Python's truth value of a dataset: None and the empty dict are false
Truthy(dataset) ==
    ~dataset.is_none /\ (dataset.has_workers \/ dataset.has_other)

(***************************************************************************)
(* HandymanMLSystem.  An engine is the record of its fields; a component   *)
(* is "None", "unfit" (constructed, not fitted) or "fit" / "loaded" /      *)
(* "set".  Every method is an operator from the engine and the call's      *)
(* inputs to a result: the engine afterwards, whether the call raised, and *)
(* what it returned.                                                       *)
(***************************************************************************)
HandymanMLSystem ==
    [ dataset |-> PyNone,
      sentence_model |-> "None",
      service_classifier |-> "None",
      label_encoder |-> "None",
      location_data |-> "None",
      location_embeddings |-> "None",
      location_names |-> "None",
      trained |-> FALSE,
      last_detected_service |-> "None",
      last_detected_location |-> "None" ]

\* load_dataset_from_dict: the assignment comes first; the log line then
\* calls dataset.get, which raises on None (the except clause re-raises)
load_dataset_from_dict(self, dataset) ==
    [ eng |-> [self EXCEPT !.dataset = dataset],
      raised |-> dataset.is_none ]

\* load_dataset_from_file: readable = open() and json.load succeed; when
\* they do not, the assignment never happens
load_dataset_from_file(self, readable, dataset) ==
    IF ~readable THEN [ eng |-> self, raised |-> TRUE ]
    ELSE [ eng |-> [self EXCEPT !.dataset = dataset],
           raised |-> dataset.is_none ]

\* where a training run can raise: loading the sentence transformer, the
\* encode of the training examples, MLPClassifier.fit, the encode of the
\* location names
TrainFaults ==
    { "none", "SentenceTransformer", "encode_examples", "fit",
      "encode_locations" }

\* _train_service_classifier: encode, then a new LabelEncoder is fitted, then
\* a new MLPClassifier is assigned to the engine and fitted
_train_service_classifier(self, fault) ==
    IF fault = "encode_examples" THEN [ eng |-> self, raised |-> TRUE ]
    ELSE IF fault = "fit"
    THEN [ eng |-> [self EXCEPT !.label_encoder = "fit",
                                !.service_classifier = "unfit"],
           raised |-> TRUE ]
    ELSE [ eng |-> [self EXCEPT !.label_encoder = "fit",
                                !.service_classifier = "fit"],
           raised |-> FALSE ]

\* _train_location_model: location_data and location_names are assigned
\* before the encode that yields location_embeddings
_train_location_model(self, fault) ==
    IF fault = "encode_locations"
    THEN [ eng |-> [self EXCEPT !.location_data = "set",
                                !.location_names = "set"],
           raised |-> TRUE ]
    ELSE [ eng |-> [self EXCEPT !.location_data = "set",
                                !.location_names = "set",
                                !.location_embeddings = "set"],
           raised |-> FALSE ]

\* train_system: trained is set only when every step succeeded; it is never
\* reset, and the dataset is not consulted
train_system(self, fault) ==
    IF fault = "SentenceTransformer" THEN [ eng |-> self, raised |-> TRUE ]
    ELSE
      LET s1 == [self EXCEPT !.sentence_model = "loaded"]
          r2 == _train_service_classifier(s1, fault)
          r3 == _train_location_model(r2.eng, fault)
      IN  IF r2.raised THEN r2
          ELSE IF r3.raised THEN r3
          ELSE [ eng |-> [r3.eng EXCEPT !.trained = TRUE], raised |-> FALSE ]

\* whether a query's call of sentence_model.encode raises
QueryFaults == { "none", "encode" }

\* service_probs of predict_service, tabulated per query text:
\* list(zip(service_names, probabilities)), sorted by probability, largest
\* first
SortProbs(text) ==
    LET probabilities == predict_proba(text)
        zipped == [ i \in DOMAIN classes_ |->
                      [ service |-> classes_[i], p |-> probabilities[i] ] ]
    IN  StableSortDesc(zipped, [ i \in DOMAIN zipped |-> zipped[i].p ])

service_probs == [ text \in Texts |-> SortProbs(text) ]

\* predict_service: the (service, probability) pairs, largest probability
\* first, cut to the first three; records the first one's service
predict_service(self, text, fault) ==
    IF ~self.trained
       \/ self.sentence_model # "loaded" \/ fault = "encode"
       \/ self.service_classifier # "fit"
       \/ self.label_encoder # "fit"
    THEN [ eng |-> self, raised |-> TRUE, value |-> <<>> ]
    ELSE
      [ eng |-> [self EXCEPT
                    !.last_detected_service = service_probs[text][1].service],
        raised |-> FALSE,
        value |-> SubSeq(service_probs[text], 1, 3) ]

\* np.argmax: the first index holding the largest value
argmax(v) ==
    CHOOSE i \in DOMAIN v :
        /\ \A j \in DOMAIN v : v[j] <= v[i]
        /\ \A j \in DOMAIN v : j < i => v[j] < v[i]

\* a resolver that falls back to the location recorded by the call before
extract_location_Sticky(self, text, fault) ==
    IF ~self.trained
       \/ self.sentence_model # "loaded" \/ fault = "encode"
       \/ self.location_embeddings # "set"
    THEN [ eng |-> self, raised |-> TRUE,
           coordinates |-> << 0, 0 >>, location_name |-> "None" ]
    ELSE
      LET similarities == cosine_similarity(text)
          best == CHOOSE i \in DOMAIN similarities :
                     \A j \in DOMAIN similarities :
                        similarities[j] <= similarities[i]
          location_name ==
              IF similarities[best] > 25 THEN location_names[best]
              ELSE IF self.last_detected_location = "None" THEN "colombo"
              ELSE self.last_detected_location
      IN  [ eng |-> [self EXCEPT !.last_detected_location = location_name],
            raised |-> FALSE,
            coordinates |-> location_data[location_name],
            location_name |-> location_name ]

\* a resolver that accepts a similarity of exactly 0.25
extract_location_AtLeast(self, text, fault) ==
    IF ~self.trained
       \/ self.sentence_model # "loaded" \/ fault = "encode"
       \/ self.location_embeddings # "set"
    THEN [ eng |-> self, raised |-> TRUE,
           coordinates |-> << 0, 0 >>, location_name |-> "None" ]
    ELSE
      LET similarities == cosine_similarity(text)
          best == CHOOSE i \in DOMAIN similarities :
                     /\ \A j \in DOMAIN similarities :
                           similarities[j] <= similarities[i]
                     /\ \A j \in DOMAIN similarities :
                           j < i => similarities[j] < similarities[i]
          location_name ==
              IF similarities[best] >= 25 THEN location_names[best]
              ELSE "colombo"
      IN  [ eng |-> [self EXCEPT !.last_detected_location = location_name],
            raised |-> FALSE,
            coordinates |-> location_data[location_name],
            location_name |-> location_name ]

\* extract_location: the best gazetteer entry when its similarity is above
\* 0.25, colombo otherwise; records the name
extract_location(self, text, fault) ==
    IF ~self.trained
       \/ self.sentence_model # "loaded" \/ fault = "encode"
       \/ self.location_embeddings # "set"
    THEN [ eng |-> self, raised |-> TRUE,
           coordinates |-> << 0, 0 >>, location_name |-> "None" ]
    ELSE
      LET similarities == cosine_similarity(text)
          best_match_idx == argmax(similarities)
          best_similarity == similarities[best_match_idx]
          location_name == location_names[best_match_idx]
      IN  IF best_similarity > 25
          THEN [ eng |-> [self EXCEPT !.last_detected_location = location_name],
                 raised |-> FALSE,
                 coordinates |-> location_data[location_name],
                 location_name |-> location_name ]
          ELSE [ eng |-> [self EXCEPT !.last_detected_location = "colombo"],
                 raised |-> FALSE,
                 coordinates |-> location_data.colombo,
                 location_name |-> "colombo" ]

\* next((p for s, p in service_predictions if s == service_type), 0)
ServiceConfidence(service_predictions, service_type) ==
    LET hits == { i \in DOMAIN service_predictions :
                    service_predictions[i].service = service_type }
    IN  IF hits = {} THEN 0
        ELSE service_predictions[CHOOSE i \in hits : \A j \in hits : i <= j].p

\* the body of the scoring loop for one worker: the one-element list of its
\* scored record, or the empty list when the body raised and the worker was
\* skipped.  A missing latitude or longitude defaults to colombo's.
ScoreWorker(worker, service_predictions, location_coords) ==
    LET service_confidence ==
            ServiceConfidence(service_predictions, worker.service_type)
        service_score == service_confidence * 7
        worker_lat == IF worker.has_lat THEN worker.lat
                      ELSE location_data.colombo[1]
        worker_lng == IF worker.has_lng THEN worker.lng
                      ELSE location_data.colombo[2]
        distance == geodesic(location_coords, << worker_lat, worker_lng >>)
        distance_score == Max(0, 200 - (distance * 2))
        quality_score == worker.rating * 2
        total_score == service_score + distance_score + quality_score
    IN  IF ~worker.geo_ok \/ ~worker.rating_num THEN <<>>
        ELSE << [ worker |-> worker,
                  score |-> total_score,
                  distance_km |-> distance,
                  service_confidence |-> service_confidence ] >>

\* a scoring loop that gives up the whole batch when one worker fails
ScoreWorkers_Abort(relevant_workers, service_predictions, location_coords) ==
    IF \E i \in DOMAIN relevant_workers :
          ScoreWorker(relevant_workers[i], service_predictions,
                      location_coords) = <<>>
    THEN <<>>
    ELSE [ i \in DOMAIN relevant_workers |->
             ScoreWorker(relevant_workers[i], service_predictions,
                         location_coords)[1] ]

RECURSIVE ScoreWorkers(_, _, _)
ScoreWorkers(relevant_workers, service_predictions, location_coords) ==
    IF relevant_workers = <<>> THEN <<>>
    ELSE ScoreWorker(Head(relevant_workers), service_predictions,
                     location_coords)
         \o ScoreWorkers(Tail(relevant_workers), service_predictions,
                         location_coords)

\* workers_df[workers_df['service_type'].isin(likely_services)]
\* a selection that keeps every worker, whatever its service
WorkersIn_KeepAll(workers, likely_services) == workers

WorkersIn(workers, likely_services) ==
    LET Likely(w) == w.service_type \in likely_services
    IN  SelectSeq(workers, Likely)

\* the cut without the sort
RankAndCut_Unsorted(scored_workers, max_results) ==
    PySlice(scored_workers, max_results)

\* the cut after a sort that puts the smallest score first
RankAndCut_Ascending(scored_workers, max_results) ==
    LET key == [ i \in DOMAIN scored_workers |-> 0 - scored_workers[i].score ]
    IN  PySlice(StableSortDesc(scored_workers, key), max_results)

\* scored_workers.sort(key=score, reverse=True); scored_workers[:max_results]
RankAndCut(scored_workers, max_results) ==
    LET key == [ i \in DOMAIN scored_workers |-> scored_workers[i].score ]
    IN  PySlice(StableSortDesc(scored_workers, key), max_results)

\* likely_services = [s for s, p in service_predictions if p > 0.1]
LikelyServices(service_predictions) ==
    { service_predictions[i].service :
        i \in { j \in DOMAIN service_predictions :
                  service_predictions[j].p > 10 } }

\* relevant_workers: the workers of the likely services or, when there are
\* none, the workers of the first predicted service
RelevantWorkers(workers, service_predictions) ==
    IF Len(WorkersIn(workers, LikelyServices(service_predictions))) = 0
    THEN WorkersIn(workers, { service_predictions[1].service })
    ELSE WorkersIn(workers, LikelyServices(service_predictions))

\* get_recommendations.  path names the statement the call left by:
\*   "not_trained" the raise before the try block,
\*   "exception"   the except clause of the try block (returns []),
\*   "no_dataset"  the 'Dataset not loaded properly' return,
\*   "no_workers"  the 'No suitable workers found' return,
\*   "ranked"      the final return of the sorted, cut list.
\* An empty 'workers' list gives a frame without columns, on which
\* workers_df['service_type'] raises KeyError.
get_recommendations(self, query, max_results, fault) ==
    IF ~self.trained
    THEN [ eng |-> self, raised |-> TRUE, value |-> <<>>,
           path |-> "not_trained" ]
    ELSE
      LET r1 == predict_service(self, query, fault)
          r2 == extract_location(r1.eng, query, fault)
          workers == self.dataset.workers
          relevant_workers == RelevantWorkers(workers, r1.value)
      IN  IF r1.raised
          THEN [ eng |-> r1.eng, raised |-> FALSE, value |-> <<>>,
                 path |-> "exception" ]
          ELSE IF r2.raised
          THEN [ eng |-> r2.eng, raised |-> FALSE, value |-> <<>>,
                 path |-> "exception" ]
          ELSE IF ~Truthy(self.dataset) \/ ~self.dataset.has_workers
          THEN [ eng |-> r2.eng, raised |-> FALSE, value |-> <<>>,
                 path |-> "no_dataset" ]
          ELSE IF workers = <<>>
          THEN [ eng |-> r2.eng, raised |-> FALSE, value |-> <<>>,
                 path |-> "exception" ]
          ELSE IF Len(relevant_workers) = 0
          THEN [ eng |-> r2.eng, raised |-> FALSE, value |-> <<>>,
                 path |-> "no_workers" ]
          ELSE [ eng |-> r2.eng, raised |-> FALSE,
                 value |-> RankAndCut(
                              ScoreWorkers(relevant_workers, r1.value,
                                           r2.coordinates),
                              max_results),
                 path |-> "ranked" ]

(***************************************************************************)
(* State.                                                                  *)
(*   sys, ret     one engine driven call by call, and the outcome of the   *)
(*                latest call on it (the engine-level specifications)      *)
(*   entry        the entry point the process was started by: "run_py"     *)
(*                (run_py.py, or api_server.py as a script) or "run"       *)
(*                (run.py, the Gunicorn entry point)                       *)
(*   datafile     what the dataset acquisition of this process finds       *)
(*   heap         the HandymanMLSystem objects constructed so far          *)
(*   ml_system    api_server.ml_system: 0 for None, else an index of heap  *)
(*   ml_ready, ml_error, ml_lock                                           *)
(*                run.py's _ml_ready, _ml_error ("None" or the message),   *)
(*                _ml_lock (0 when free, else the thread holding it)       *)
(*   main         the start-up thread                                      *)
(*   thr          the request threads                                      *)
(*   kept         an answer of get_recommendations its caller has kept,    *)
(*                with the inputs it was given for                         *)
(***************************************************************************)
VARIABLES sys, ret, entry, datafile, heap, ml_system, ml_ready, ml_error,
          ml_lock, main, thr, kept

engineVars == << sys, ret, kept >>

serverVars ==
    << entry, datafile, heap, ml_system, ml_ready, ml_error, ml_lock, main,
       thr >>

vars == << sys, ret, entry, datafile, heap, ml_system, ml_ready, ml_error,
           ml_lock, main, thr >>

(***************************************************************************)
(* Requests and threads of the server.                                     *)
(***************************************************************************)
\* request threads of the process
NumThreads == 2

Threads == 1..NumThreads

\* max_results must be an integer between 1 and 20 (utils_py.validate_query)
MaxResultsLimit == 20

\* the default of data.get('max_results', 5) in search_workers
DefaultMaxResults == 5

\* the JSON body of a request: is_dict is whether it is an object, has_query
\* and has_max_results whether it has the key; the query "" stands for any
\* string that is empty after strip()
Body(has_query, query, has_max_results, max_results) ==
    [ is_dict |-> TRUE, has_query |-> has_query, query |-> query,
      has_max_results |-> has_max_results, max_results |-> max_results ]

NoBody == [ Body(FALSE, "", FALSE, 0) EXCEPT !.is_dict = FALSE ]

\* the query texts and max_results values requests carry
RequestTexts == { "leak kandy", "fix wiring" }

RequestMaxResults == { -1, 0, 1, MaxResultsLimit, MaxResultsLimit + 1 }

RequestBodies ==
    { NoBody, Body(FALSE, "", FALSE, 0), Body(TRUE, "", FALSE, 0) }
        \cup { Body(TRUE, q, FALSE, 0) : q \in RequestTexts }
        \cup { Body(TRUE, "leak kandy", TRUE, k) : k \in RequestMaxResults }

\* a response: the HTTP status, the ids of the workers listed, the
\* ai_analysis metadata, the error message ("None" without one) and the
\* ml_ready flag reported
NoResponse ==
    [ status |-> 0, workers |-> <<>>, detected_service |-> "None",
      detected_location |-> "None", error |-> "None", ml_ready |-> FALSE ]

Response(status, error) ==
    [NoResponse EXCEPT !.status = status, !.error = error]

\* a request thread: where it is (pc), the request it serves (path, data),
\* the arguments of its _ensure_ml_ready call (force) and the place to go on
\* from when that call returns (caller), the max_results it passed to the
\* engine and the recommendations it got (recs), and its response (resp)
IdleThread ==
    [ pc |-> "idle", path |-> "none", data |-> NoBody, force |-> FALSE,
      caller |-> "none", max_results |-> 0, recs |-> <<>>,
      resp |-> NoResponse ]

\* the start-up thread: pc, the dataset it acquired, and what ml_system was
\* when its init_ml_system call began
MainThread(pc) ==
    [ pc |-> pc, dataset |-> PyNone, published_before |-> 0 ]

\* the server's variables where the engine-level specifications leave them
ServerIdle ==
    /\ entry = "none"
    /\ datafile = [ found |-> FALSE, readable |-> FALSE, dataset |-> PyNone ]
    /\ heap = <<>>
    /\ ml_system = 0
    /\ ml_ready = FALSE
    /\ ml_error = "None"
    /\ ml_lock = 0
    /\ main = MainThread("none")
    /\ thr = [ t \in Threads |-> IdleThread ]

\* the max_results values a caller of the engine passes
MaxResultsValues == { -1, 0, 1, 2, 20, 21 }

\* nothing kept yet
NoKept ==
    [ set |-> FALSE, query |-> "none", max_results |-> 0, value |-> <<>>,
      others |-> FALSE ]

NoCall ==
    [ op |-> "none", raised |-> FALSE, value |-> <<>>, path |-> "none",
      query |-> "none", max_results |-> 0, fault |-> "none",
      dataset |-> PyNone ]

(***************************************************************************)
(* The engine under a sequential caller: any sequence of load, train and   *)
(* recommend calls, on datasets of at most one provider.                   *)
(***************************************************************************)
SmallPayloads == { d \in Payloads : Len(d.workers) <= 1 }

Construct ==
    /\ sys' = HandymanMLSystem
    /\ ret' = [NoCall EXCEPT !.op = "construct"]
    /\ UNCHANGED << serverVars, kept >>

Load(dataset) ==
    LET r == load_dataset_from_dict(sys, dataset)
    IN  /\ sys' = r.eng
        /\ ret' = [NoCall EXCEPT !.op = "load", !.raised = r.raised,
                                 !.dataset = dataset]
        /\ UNCHANGED << serverVars, kept >>

LoadFile(readable, dataset) ==
    LET r == load_dataset_from_file(sys, readable, dataset)
    IN  /\ sys' = r.eng
        /\ ret' = [NoCall EXCEPT !.op = "load_file", !.raised = r.raised,
                                 !.dataset = dataset,
                                 !.fault = IF readable THEN "none"
                                           ELSE "unreadable"]
        /\ UNCHANGED << serverVars, kept >>

Train(fault) ==
    LET r == train_system(sys, fault)
    IN  /\ sys' = r.eng
        /\ ret' = [NoCall EXCEPT !.op = "train", !.raised = r.raised,
                                 !.fault = fault]
        /\ UNCHANGED << serverVars, kept >>

Recommend(query, max_results, fault) ==
    LET r == get_recommendations(sys, query, max_results, fault)
    IN  /\ sys' = r.eng
        /\ ret' = [NoCall EXCEPT !.op = "recommend", !.raised = r.raised,
                                 !.value = r.value, !.path = r.path,
                                 !.query = query,
                                 !.max_results = max_results,
                                 !.fault = fault]
        /\ UNCHANGED << serverVars, kept >>

\* a direct call of predict_service
Predict(text, fault) ==
    LET r == predict_service(sys, text, fault)
    IN  /\ sys' = r.eng
        /\ ret' = [NoCall EXCEPT !.op = "predict", !.raised = r.raised,
                                 !.value = r.value, !.query = text,
                                 !.fault = fault]
        /\ UNCHANGED << serverVars, kept >>

\* a direct call of extract_location; the returned pair is kept as a
\* one-element list, the empty list standing for 'nothing returned'
Resolve(text, fault) ==
    LET r == extract_location(sys, text, fault)
    IN  /\ sys' = r.eng
        /\ ret' = [NoCall EXCEPT
                      !.op = "resolve", !.raised = r.raised,
                      !.value = IF r.raised THEN <<>>
                                ELSE << [ coordinates |-> r.coordinates,
                                          location_name |-> r.location_name ] >>,
                      !.query = text, !.fault = fault]
        /\ UNCHANGED << serverVars, kept >>

Init ==
    /\ sys = HandymanMLSystem
    /\ ret = [NoCall EXCEPT !.op = "construct"]
    /\ kept = NoKept
    /\ ServerIdle

Next ==
    \/ Construct
    \/ \E d \in SmallPayloads : Load(d)
    \/ \E d \in SmallPayloads : LoadFile(TRUE, d)
    \/ LoadFile(FALSE, PyNone)
    \/ \E f \in TrainFaults : Train(f)
    \/ \E q \in Texts, k \in MaxResultsValues, f \in QueryFaults :
          Recommend(q, k, f)
    \/ \E q \in Texts, f \in QueryFaults : Predict(q, f)
    \/ \E q \in Texts, f \in QueryFaults : Resolve(q, f)

Spec == Init /\ [][Next]_vars

(***************************************************************************)
(* Ranking: a Ready engine (constructed, loaded, trained) holding any      *)
(* catalog of the pool, queried repeatedly.                                *)
(***************************************************************************)
Ready(workers) ==
    train_system(
        load_dataset_from_dict(HandymanMLSystem,
                               Dataset(TRUE, workers, FALSE)).eng,
        "none").eng

RankInit ==
    /\ \E c \in Catalogs : sys = Ready(c)
    /\ ret = [NoCall EXCEPT !.op = "train"]
    /\ kept = NoKept
    /\ ServerIdle

RankNext ==
    \E q \in Texts, k \in MaxResultsValues : Recommend(q, k, "none")

RankSpec == RankInit /\ [][RankNext]_vars

(***************************************************************************)
(* Repeated queries: a caller of a Ready engine keeps one answer of        *)
(* get_recommendations (keep), goes on calling with these and with other   *)
(* inputs, and notes whether a call with other inputs came in between.     *)
(***************************************************************************)
AskTexts == { "leak kandy", "fix wiring", "help" }

AskMaxResults == { 1, 2 }

Ask(query, max_results, keep) ==
    LET r == get_recommendations(sys, query, max_results, "none")
    IN  /\ keep => ~kept.set
        /\ sys' = r.eng
        /\ ret' = [NoCall EXCEPT !.op = "recommend", !.raised = r.raised,
                                 !.value = r.value, !.path = r.path,
                                 !.query = query,
                                 !.max_results = max_results]
        /\ kept' = IF keep
                   THEN [ set |-> TRUE, query |-> query,
                          max_results |-> max_results, value |-> r.value,
                          others |-> FALSE ]
                   ELSE IF kept.set /\ (query # kept.query
                                        \/ max_results # kept.max_results)
                   THEN [kept EXCEPT !.others = TRUE]
                   ELSE kept
        /\ UNCHANGED serverVars

AskNext ==
    \E q \in AskTexts, k \in AskMaxResults, keep \in BOOLEAN : Ask(q, k, keep)

AskSpec == RankInit /\ [][AskNext]_vars

(***************************************************************************)
(* The server process.                                                     *)
(*                                                                         *)
(* Started by run_py.py (or api_server.py as a script), the main thread    *)
(* runs init_ml_system() and then app.run(); when init_ml_system raises it *)
(* exits.  Started by run.py, the application is served at once and every  *)
(* request passes _lazy_init first.                                        *)
(*                                                                         *)
(* run.py calls init_ml_system(force=force).  api_server.init_ml_system is *)
(* declared without parameters, so this call raises TypeError before the   *)
(* body of init_ml_system runs; _ensure_ml_ready catches it in its except  *)
(* clause.  The statements after the call in the try block (_ml_ready =    *)
(* True, _ml_error = None) are therefore never executed.                   *)
(*                                                                         *)
(* api_server imports its helpers from the module utils (utils.py), whose  *)
(* get_github_dataset_url names its first parameter user: the call         *)
(* get_github_dataset_url(username=...) of init_ml_system raises TypeError *)
(* as well, so a missing local data file makes init_ml_system raise.       *)
(***************************************************************************)
PoolProvider(id) == CHOOSE w \in ProviderPool : w.id = id

\* a catalog with more providers of one category than MaxResultsLimit
BigCatalog ==
    [ i \in 1..(MaxResultsLimit + 2) |->
        Provider(100 + i, "plumbing", 25 + i, location_data.colombo) ]

\* what the dataset acquisition of init_ml_system can find: no local file,
\* a file json.load rejects, or a file holding one of these values
DataFiles ==
    { [ found |-> FALSE, readable |-> FALSE, dataset |-> PyNone ],
      [ found |-> TRUE, readable |-> FALSE, dataset |-> PyNone ] }
    \cup
    { [ found |-> TRUE, readable |-> TRUE, dataset |-> d ] :
        d \in { PyNone,
                Dataset(FALSE, <<>>, FALSE),
                Dataset(FALSE, <<>>, TRUE),
                Dataset(TRUE, <<>>, FALSE),
                Dataset(TRUE, << PoolProvider(2), PoolProvider(1),
                                 PoolProvider(4) >>, FALSE),
                Dataset(TRUE, BigCatalog, FALSE) } }

\* utils.validate_query, the function api_server imports
validate_query(data) ==
    IF ~data.is_dict THEN [ is_valid |-> FALSE, error |-> "Invalid JSON" ]
    ELSE IF ~data.has_query
    THEN [ is_valid |-> FALSE, error |-> "Missing 'query'" ]
    ELSE IF data.query = ""
    THEN [ is_valid |-> FALSE, error |-> "Query cannot be empty" ]
    ELSE [ is_valid |-> TRUE, error |-> "" ]

\* utils_py.validate_query (a non-dict body stands for 'no data')
validate_query_py(data) ==
    IF ~data.is_dict THEN [ is_valid |-> FALSE, error |-> "No data provided" ]
    ELSE IF ~data.has_query
    THEN [ is_valid |-> FALSE, error |-> "Query parameter is required" ]
    ELSE IF data.query = ""
    THEN [ is_valid |-> FALSE, error |-> "Query must be a non-empty string" ]
    ELSE IF data.has_max_results
            /\ (data.max_results < 1 \/ data.max_results > MaxResultsLimit)
    THEN [ is_valid |-> FALSE,
           error |-> "max_results must be an integer between 1 and 20" ]
    ELSE [ is_valid |-> TRUE, error |-> "None" ]

\* ---- init_ml_system (api_server.py), run by the start-up thread ----

\* the dataset acquisition and the 'if not dataset' check
InitDataset ==
    /\ main.pc = "init_dataset"
    /\ IF datafile.found /\ datafile.readable /\ Truthy(datafile.dataset)
       THEN main' = [main EXCEPT !.pc = "init_construct",
                                 !.dataset = datafile.dataset,
                                 !.published_before = ml_system]
       ELSE main' = [main EXCEPT !.pc = "failed",
                                 !.published_before = ml_system]
    /\ UNCHANGED << engineVars, entry, datafile, heap, ml_system, ml_ready,
                    ml_error, ml_lock, thr >>

\* ml_system = HandymanMLSystem()
InitConstruct ==
    /\ main.pc = "init_construct"
    /\ heap' = Append(heap, HandymanMLSystem)
    /\ ml_system' = Len(heap) + 1
    /\ main' = [main EXCEPT !.pc = "init_load"]
    /\ UNCHANGED << engineVars, entry, datafile, ml_ready, ml_error, ml_lock,
                    thr >>

\* ml_system.load_dataset_from_dict(dataset)
InitLoad ==
    /\ main.pc = "init_load"
    /\ LET r == load_dataset_from_dict(heap[ml_system], main.dataset)
       IN  /\ heap' = [heap EXCEPT ![ml_system] = r.eng]
           /\ main' = [main EXCEPT !.pc = IF r.raised THEN "failed"
                                          ELSE "init_train"]
    /\ UNCHANGED << engineVars, entry, datafile, ml_system, ml_ready,
                    ml_error, ml_lock, thr >>

\* ml_system.train_system(); then 'return True', or the exception goes on to
\* the caller, which exits the process
InitTrain(fault) ==
    /\ main.pc = "init_train"
    /\ LET r == train_system(heap[ml_system], fault)
       IN  /\ heap' = [heap EXCEPT ![ml_system] = r.eng]
           /\ main' = [main EXCEPT !.pc = IF r.raised THEN "failed"
                                          ELSE "serving"]
    /\ UNCHANGED << engineVars, entry, datafile, ml_system, ml_ready,
                    ml_error, ml_lock, thr >>

\* ---- requests ----

\* the paths the application of an entry point serves
Paths ==
    IF entry = "run" THEN { "/health", "/reload", "/api/search-workers" }
    ELSE { "/health", "/api/search-workers" }

\* a request arrives; under run.py it passes the before_request hook
StartRequest(t, path, data) ==
    /\ main.pc = "serving"
    /\ thr[t].pc = "idle"
    /\ path \in Paths
    /\ (path # "/api/search-workers") => (data = NoBody)
    /\ thr' = [thr EXCEPT ![t] =
                 [IdleThread EXCEPT !.pc = IF entry = "run" THEN "lazy_init"
                                           ELSE "view",
                                    !.path = path, !.data = data]]
    /\ UNCHANGED << engineVars, entry, datafile, heap, ml_system, ml_ready,
                    ml_error, ml_lock, main >>

\* run._lazy_init
_lazy_init(t) ==
    /\ thr[t].pc = "lazy_init"
    /\ IF thr[t].path \in { "/health", "/reload" } \/ ml_ready
       THEN thr' = [thr EXCEPT ![t].pc = "view"]
       ELSE thr' = [thr EXCEPT ![t].pc = "ensure_check",
                               ![t].force = FALSE, ![t].caller = "view"]
    /\ UNCHANGED << engineVars, entry, datafile, heap, ml_system, ml_ready,
                    ml_error, ml_lock, main >>

\* run._ensure_ml_ready: the check before the lock
EnsureCheck(t) ==
    /\ thr[t].pc = "ensure_check"
    /\ IF ml_ready /\ ~thr[t].force
       THEN thr' = [thr EXCEPT ![t].pc = thr[t].caller]
       ELSE thr' = [thr EXCEPT ![t].pc = "ensure_lock"]
    /\ UNCHANGED << engineVars, entry, datafile, heap, ml_system, ml_ready,
                    ml_error, ml_lock, main >>

\* with _ml_lock:
EnsureLock(t) ==
    /\ thr[t].pc = "ensure_lock"
    /\ ml_lock = 0
    /\ ml_lock' = t
    /\ thr' = [thr EXCEPT ![t].pc = "ensure_check2"]
    /\ UNCHANGED << engineVars, entry, datafile, heap, ml_system, ml_ready,
                    ml_error, main >>

\* the check under the lock
EnsureCheck2(t) ==
    /\ thr[t].pc = "ensure_check2"
    /\ IF ml_ready /\ ~thr[t].force
       THEN thr' = [thr EXCEPT ![t].pc = "ensure_unlock"]
       ELSE thr' = [thr EXCEPT ![t].pc = "ensure_init"]
    /\ UNCHANGED << engineVars, entry, datafile, heap, ml_system, ml_ready,
                    ml_error, ml_lock, main >>

\* setup_logging(); init_ml_system(force=force): the call raises TypeError
\* (init_ml_system takes no argument) and control goes to the except clause
EnsureInit(t) ==
    /\ thr[t].pc = "ensure_init"
    /\ thr' = [thr EXCEPT ![t].pc = "ensure_except"]
    /\ UNCHANGED << engineVars, entry, datafile, heap, ml_system, ml_ready,
                    ml_error, ml_lock, main >>

\* except Exception: _ml_ready = False
EnsureExcept(t) ==
    /\ thr[t].pc = "ensure_except"
    /\ ml_ready' = FALSE
    /\ thr' = [thr EXCEPT ![t].pc = "ensure_except2"]
    /\ UNCHANGED << engineVars, entry, datafile, heap, ml_system, ml_error,
                    ml_lock, main >>

\* _ml_error = (str(e), traceback.format_exc())
EnsureExcept2(t) ==
    /\ thr[t].pc = "ensure_except2"
    /\ ml_error' = "init_ml_system() got an unexpected keyword argument"
    /\ thr' = [thr EXCEPT ![t].pc = "ensure_unlock"]
    /\ UNCHANGED << engineVars, entry, datafile, heap, ml_system, ml_ready,
                    ml_lock, main >>

\* the end of the with block; _ensure_ml_ready returns
EnsureUnlock(t) ==
    /\ thr[t].pc = "ensure_unlock"
    /\ ml_lock' = 0
    /\ thr' = [thr EXCEPT ![t].pc = thr[t].caller]
    /\ UNCHANGED << engineVars, entry, datafile, heap, ml_system, ml_ready,
                    ml_error, main >>

\* run._reload: _ensure_ml_ready(force=True)
_reload(t) ==
    /\ thr[t].pc = "view" /\ thr[t].path = "/reload"
    /\ thr' = [thr EXCEPT ![t].pc = "ensure_check", ![t].force = TRUE,
                          ![t].caller = "reload_respond"]
    /\ UNCHANGED << engineVars, entry, datafile, heap, ml_system, ml_ready,
                    ml_error, ml_lock, main >>

\* run._reload: the response {reloaded, ml_ready, error}
ReloadRespond(t) ==
    /\ thr[t].pc = "reload_respond"
    /\ thr' = [thr EXCEPT ![t].pc = "idle",
                          ![t].resp = [Response(200, ml_error)
                                          EXCEPT !.ml_ready = ml_ready]]
    /\ UNCHANGED << engineVars, entry, datafile, heap, ml_system, ml_ready,
                    ml_error, ml_lock, main >>

\* api_server.health_check, the first view registered for /health
health_check(t) ==
    /\ thr[t].pc = "view" /\ thr[t].path = "/health"
    /\ thr' = [thr EXCEPT ![t].pc = "idle",
                          ![t].resp =
                              [Response(200, "None") EXCEPT !.ml_ready =
                                  (ml_system # 0 /\ heap[ml_system].trained)]]
    /\ UNCHANGED << engineVars, entry, datafile, heap, ml_system, ml_ready,
                    ml_error, ml_lock, main >>

\* api_server.search_workers up to the get_recommendations call
search_workers(t) ==
    /\ thr[t].pc = "view" /\ thr[t].path = "/api/search-workers"
    /\ IF ml_system = 0 \/ ~heap[ml_system].trained
       THEN /\ thr' = [thr EXCEPT ![t].pc = "idle",
                         ![t].resp = Response(500, "ML system not ready")]
            /\ heap' = heap
       ELSE IF ~validate_query(thr[t].data).is_valid
       THEN /\ thr' = [thr EXCEPT ![t].pc = "idle",
                         ![t].resp =
                            Response(400, validate_query(thr[t].data).error)]
            /\ heap' = heap
       ELSE
         LET max_results == IF thr[t].data.has_max_results
                            THEN thr[t].data.max_results
                            ELSE DefaultMaxResults
             r == get_recommendations(heap[ml_system], thr[t].data.query,
                                      max_results, "none")
         IN  /\ heap' = [heap EXCEPT ![ml_system] = r.eng]
             /\ thr' = [thr EXCEPT ![t].pc = "search_respond",
                                   ![t].max_results = max_results,
                                   ![t].recs = r.value]
    /\ UNCHANGED << engineVars, entry, datafile, ml_system, ml_ready,
                    ml_error, ml_lock, main >>

\* api_server.search_workers: the workers are formatted, the metadata is read
\* off the engine, the response is sent
SearchRespond(t) ==
    /\ thr[t].pc = "search_respond"
    /\ thr' = [thr EXCEPT ![t].pc = "idle",
                 ![t].resp =
                    [Response(200, "None") EXCEPT
                        !.workers = [ i \in DOMAIN thr[t].recs |->
                                        thr[t].recs[i].worker.id ],
                        !.detected_service =
                            heap[ml_system].last_detected_service,
                        !.detected_location =
                            heap[ml_system].last_detected_location]]
    /\ UNCHANGED << engineVars, entry, datafile, heap, ml_system, ml_ready,
                    ml_error, ml_lock, main >>

ServerInit ==
    /\ sys = HandymanMLSystem
    /\ ret = NoCall
    /\ kept = NoKept
    /\ entry \in { "run_py", "run" }
    /\ datafile \in DataFiles
    /\ heap = <<>>
    /\ ml_system = 0
    /\ ml_ready = FALSE
    /\ ml_error = "None"
    /\ ml_lock = 0
    /\ main = MainThread(IF entry = "run_py" THEN "init_dataset"
                         ELSE "serving")
    /\ thr = [ t \in Threads |-> IdleThread ]

ServerNext ==
    \/ InitDataset
    \/ InitConstruct
    \/ InitLoad
    \/ \E f \in TrainFaults : InitTrain(f)
    \/ \E t \in Threads :
          \/ \E path \in Paths, data \in RequestBodies :
                StartRequest(t, path, data)
          \/ _lazy_init(t)
          \/ EnsureCheck(t)
          \/ EnsureLock(t)
          \/ EnsureCheck2(t)
          \/ EnsureInit(t)
          \/ EnsureExcept(t)
          \/ EnsureExcept2(t)
          \/ EnsureUnlock(t)
          \/ _reload(t)
          \/ ReloadRespond(t)
          \/ health_check(t)
          \/ search_workers(t)
          \/ SearchRespond(t)

ServerSpec == ServerInit /\ [][ServerNext]_vars

\* ---- properties ----

(***************************************************************************)
(* What the properties below read off a state.                             *)
(***************************************************************************)
\* the latest call was a get_recommendations call
Recommended == ret.op = "recommend"

\* a catalog has been loaded (some load call stored a dataset) and training
\* has completed
IsReady(self) == self.trained /\ ~self.dataset.is_none

\* the probability predict_proba gives the category of a provider for a
\* query (0 for a category outside the fixed set)
CategoryProbability(query, service_type) ==
    LET hits == { i \in DOMAIN classes_ : classes_[i] = service_type }
    IN  IF hits = {} THEN 0
        ELSE predict_proba(query)[CHOOSE i \in hits : TRUE]

\* the scored eligible providers of the latest query, in catalog order
ScoredOfLatest ==
    ScoreWorkers(
        RelevantWorkers(sys.dataset.workers,
                        SubSeq(service_probs[ret.query], 1, 3)),
        SubSeq(service_probs[ret.query], 1, 3),
        extract_location(sys, ret.query, "none").coordinates)

\* C1: the engine reachable through the published reference ml_system is
\* at every moment a complete one: it holds a loaded dataset and is trained.
\* No state between the start and the end of a (re-)initialisation exposes
\* an engine that is not yet loaded or not yet trained.
C1_PublishedEngineComplete ==
    (ml_system # 0) => IsReady(heap[ml_system])

\* C2: when a (re-)initialisation has failed, the published reference is
\* the one that was published before it started.
C2_FailureKeepsPublished ==
    (main.pc = "failed") => (ml_system = main.published_before)

\* the sum of the probabilities of a list of (service, probability) pairs
RECURSIVE SumP(_)
SumP(pairs) == IF pairs = <<>> THEN 0 ELSE Head(pairs).p + SumP(Tail(pairs))

\* C11: predict on a trained engine returns pairs that cover every category
\* of the fixed set, in non-increasing probability order, whose
\* probabilities sum to 1 (100 percent).
C11_PredictCoversAll ==
    (ret.op = "predict" /\ ~ret.raised) =>
        /\ { ret.value[i].service : i \in DOMAIN ret.value } = Range(classes_)
        /\ \A i, j \in DOMAIN ret.value :
              i < j => ret.value[i].p >= ret.value[j].p
        /\ SumP(ret.value) = 100

\* C12: a call of recommend with the text and max_results of an earlier
\* call on the same engine returns what the earlier call returned, in the
\* same order, whatever calls with other inputs were made in between.
C12_SameInputsSameOutput ==
    ( /\ Recommended /\ kept.set
      /\ ret.query = kept.query /\ ret.max_results = kept.max_results )
        => ret.value = kept.value

\* C12 witness: a kept answer of two recommendations, calls with other
\* inputs after it, and now a call with the kept inputs again.
C12_Witness ==
    /\ Recommended /\ kept.set /\ kept.others
    /\ ret.query = kept.query /\ ret.max_results = kept.max_results
    /\ Len(kept.value) = 2
    /\ sys.last_detected_service = service_probs[kept.query][1].service

\* every component a training run builds is complete
ComponentsComplete(self) ==
    /\ self.sentence_model = "loaded"
    /\ self.label_encoder = "fit"
    /\ self.service_classifier = "fit"
    /\ self.location_data = "set"
    /\ self.location_names = "set"
    /\ self.location_embeddings = "set"

\* C13: train on a trained engine leaves it trained with the same
\* components and the same catalog when it succeeds, and an engine never
\* reports trained while it holds components of a training run that did not
\* complete: every train step from a trained engine ends in a trained engine
\* with complete components and the catalog it had.
C13_TrainIdempotent ==
    [][ (ret'.op = "train" /\ sys.trained /\ ComponentsComplete(sys))
        => ( /\ sys'.trained => ComponentsComplete(sys')
             /\ ~ret'.raised => sys' = sys
             /\ sys'.dataset = sys.dataset ) ]_vars

\* C14: a recommend call leaves every field of the engine as it was.
C14_RecommendFrame ==
    [][ (ret'.op = "recommend") => (sys' = sys) ]_vars

\* two providers alike in category and coordinates
SameButRating(a, b) ==
    /\ a.service_type = b.service_type
    /\ a.has_lat = b.has_lat /\ a.has_lng = b.has_lng
    /\ a.has_lat => a.lat = b.lat
    /\ a.has_lng => a.lng = b.lng

\* C15: of two scored providers of the same category and coordinates, the
\* one with the strictly higher rating comes before the other in the
\* output, and is never left out of an output that holds the other.
C15_HigherRatingFirst ==
    Recommended =>
        /\ \A i, j \in DOMAIN ret.value :
              ( /\ SameButRating(ret.value[i].worker, ret.value[j].worker)
                /\ ret.value[i].worker.rating > ret.value[j].worker.rating )
                  => i < j
        /\ \A x \in Range(ScoredOfLatest) \ Range(ret.value) :
              \A y \in Range(ret.value) :
                  SameButRating(x.worker, y.worker)
                      => x.worker.rating <= y.worker.rating

\* C15 witness: the catalog lists the lower rated of two such providers
\* first, the output lists the higher rated one first.
C15_Witness ==
    /\ Recommended /\ Len(ret.value) = 2 /\ Len(sys.dataset.workers) = 2
    /\ SameButRating(ret.value[1].worker, ret.value[2].worker)
    /\ ret.value[1].worker.rating > ret.value[2].worker.rating
    /\ sys.dataset.workers[1] = ret.value[2].worker
    /\ sys.dataset.workers[2] = ret.value[1].worker

\* the providers of a catalog whose category has probability above 0.1
\* among the probabilities of all categories or, when there is none, the
\* providers of the most probable category
EligibleOverAll(workers, query) ==
    LET above == { i \in DOMAIN workers :
                     CategoryProbability(query, workers[i].service_type) > 10 }
        first == { i \in DOMAIN workers :
                     workers[i].service_type = service_probs[query][1].service }
    IN  { workers[i] : i \in (IF above # {} THEN above ELSE first) }

\* C16: the providers recommend scores are exactly the providers whose
\* category has probability above 0.1 over all categories (the providers of
\* the most probable category when there is none): with max_results no
\* smaller than the catalog, the providers returned are those of them that
\* scoring accepts.
C16_EligibleByProbability ==
    (Recommended /\ ret.max_results >= Len(sys.dataset.workers)) =>
        { ret.value[i].worker : i \in DOMAIN ret.value }
            = { w \in EligibleOverAll(sys.dataset.workers, ret.query) :
                  w.geo_ok /\ w.rating_num }

\* C17: a returned provider without coordinates has distance_km 0 and
\* distance_score 20, whatever location the query resolved to.
C17_NoCoordinatesAtQueryLocation ==
    Recommended =>
        \A i \in DOMAIN ret.value :
            LET rec == ret.value[i]
                distance_score == rec.score - (rec.service_confidence * 7)
                                    - (rec.worker.rating * 2)
            IN  (~rec.worker.has_lat /\ ~rec.worker.has_lng)
                    => (rec.distance_km = 0 /\ distance_score = 200)

\* the providers the latest query selected for scoring, in catalog order
RelevantOfLatest ==
    RelevantWorkers(sys.dataset.workers, SubSeq(service_probs[ret.query], 1, 3))

\* a record the scoring loop cannot score: coordinates geodesic rejects, or
\* a rating that is no number
Malformed(w) == ~w.geo_ok \/ ~w.rating_num

\* C18: a malformed provider record is left out and nothing else: recommend
\* does not raise, no malformed provider is returned, and with max_results
\* no smaller than the catalog every well-formed provider selected for
\* scoring is returned.
C18_MalformedSkippedAlone ==
    Recommended =>
        /\ ~ret.raised
        /\ \A i \in DOMAIN ret.value : ~Malformed(ret.value[i].worker)
        /\ (ret.max_results >= Len(sys.dataset.workers)) =>
              \A w \in Range(RelevantOfLatest) :
                  ~Malformed(w) =>
                      \E i \in DOMAIN ret.value : ret.value[i].worker = w

\* C18 witness: a malformed and a well-formed provider were selected for
\* scoring, the well-formed one is returned.
C18_Witness ==
    /\ Recommended /\ Len(ret.value) = 1
    /\ \E w \in Range(RelevantOfLatest) : Malformed(w)
    /\ \E w \in Range(RelevantOfLatest) :
          ~Malformed(w) /\ ret.value[1].worker = w

\* the largest similarity of a text to a gazetteer entry, and the entries
\* that reach it
BestSimilarity(text) ==
    CHOOSE v \in Range(cosine_similarity(text)) :
        \A u \in Range(cosine_similarity(text)) : u <= v

BestEntries(text) ==
    { location_names[i] : i \in { j \in DOMAIN location_names :
          cosine_similarity(text)[j] = BestSimilarity(text) } }

\* C19: resolve never fails; it returns a gazetteer entry of the highest
\* similarity, with that entry's coordinates, exactly when that similarity
\* is strictly above 0.25, and colombo with its coordinates otherwise.
C19_ResolveThreshold ==
    (ret.op = "resolve") =>
        /\ ~ret.raised
        /\ Len(ret.value) = 1
        /\ IF BestSimilarity(ret.query) > 25
           THEN /\ ret.value[1].location_name \in BestEntries(ret.query)
                /\ ret.value[1].coordinates
                     = location_data[ret.value[1].location_name]
           ELSE /\ ret.value[1].location_name = "colombo"
                /\ ret.value[1].coordinates = location_data.colombo

\* C19 as the code has it: resolve fails exactly when the engine is not
\* trained or the embedding of the text fails; when it does not fail it
\* returns a gazetteer entry of the highest similarity, with that entry's
\* coordinates, exactly when that similarity is strictly above 0.25, and
\* colombo with its coordinates otherwise.
C19_ResolveOnTrained ==
    (ret.op = "resolve") =>
        /\ ret.raised <=> (~sys.trained \/ ret.fault = "encode")
        /\ ~ret.raised =>
              /\ Len(ret.value) = 1
              /\ IF BestSimilarity(ret.query) > 25
                 THEN /\ ret.value[1].location_name \in BestEntries(ret.query)
                      /\ ret.value[1].coordinates
                           = location_data[ret.value[1].location_name]
                 ELSE /\ ret.value[1].location_name = "colombo"
                      /\ ret.value[1].coordinates = location_data.colombo

\* C19 witness: a text whose highest similarity is exactly 0.25, reached by
\* an entry other than colombo, resolved to colombo.
C19_Witness ==
    /\ ret.op = "resolve" /\ ~ret.raised
    /\ BestSimilarity(ret.query) = 25
    /\ "colombo" \notin BestEntries(ret.query)
    /\ ret.value[1].location_name = "colombo"

\* C20: for every returned record, total_score is category_confidence * 70
\* + max(0, 20 - distance_km * 0.2) + quality_score, category_confidence is
\* the probability of the provider's own category and lies in [0, 1], the
\* distance score lies in [0, 20], and total_score is at most 100.
C20_ScoreFormula ==
    Recommended =>
        \A i \in DOMAIN ret.value :
            LET rec == ret.value[i]
                quality_score == rec.worker.rating * 2
                distance_score == Max(0, 200 - (rec.distance_km * 2))
            IN  /\ rec.service_confidence
                     = CategoryProbability(ret.query, rec.worker.service_type)
                /\ rec.service_confidence \in 0..100
                /\ rec.score = (rec.service_confidence * 7) + distance_score
                                  + quality_score
                /\ distance_score \in 0..200
                /\ rec.score <= 1000

\* a thread is inside _ensure_ml_ready
InEnsure(t) ==
    thr[t].pc \in { "ensure_check", "ensure_lock", "ensure_check2",
                    "ensure_init", "ensure_except", "ensure_except2",
                    "ensure_unlock" }

\* a thread is running the initialisation (the try block and its except
\* clause)
Initialising(t) ==
    thr[t].pc \in { "ensure_init", "ensure_except", "ensure_except2" }

\* the data file is one init_ml_system accepts
GoodDataFile ==
    datafile.found /\ datafile.readable /\ Truthy(datafile.dataset)

\* C21 (a): a request to /health never enters _ensure_ml_ready.
C21a_HealthNeverInitialises ==
    \A t \in Threads : (thr[t].path = "/health") => ~InEnsure(t)

\* C21 (b): no two threads run the initialisation at the same time.
C21b_OneInitialiserAtATime ==
    \A t, u \in Threads : (t # u) => ~(Initialising(t) /\ Initialising(u))

\* C21: without a forced reload the ML system is initialised lazily and
\* once: a request to /health never starts an initialisation, no two threads
\* run the initialisation at the same time, a non-forced request starts the
\* initialisation only while the system is not ready, and a request to
\* another path that has passed _lazy_init finds the system initialised
\* (given a data file the initialisation accepts), so that no later request
\* starts another initialisation.
C21_LazyOnce ==
    /\ C21a_HealthNeverInitialises
    /\ C21b_OneInitialiserAtATime
    /\ \A t \in Threads :
          (thr[t].pc = "ensure_init" /\ ~thr[t].force) => ~ml_ready
    /\ \A t \in Threads :
          ( /\ entry = "run" /\ GoodDataFile
            /\ thr[t].pc = "view"
            /\ thr[t].path = "/api/search-workers" ) => ml_ready

\* C22: whenever ml_ready is true, no ml_error is reported and the published
\* engine exists and is trained.
C22_ReadyMeansServing ==
    ml_ready => ( /\ ml_error = "None"
                  /\ ml_system # 0
                  /\ heap[ml_system].trained )

\* C23: the detected_service and detected_location of a search response
\* are the category and the location the engine inferred for the query of
\* that same request.
C23_MetadataOfOwnQuery ==
    \A t \in Threads :
        ( /\ thr[t].pc = "idle" /\ thr[t].path = "/api/search-workers"
          /\ thr[t].resp.status = 200 ) =>
            /\ thr[t].resp.detected_service
                 = service_probs[thr[t].data.query][1].service
            /\ thr[t].resp.detected_location
                 = extract_location(heap[ml_system], thr[t].data.query,
                                    "none").location_name

\* C3: recommend fails with a not-ready error unless the engine is Ready
\* (catalog loaded and training completed); an engine trained without a
\* catalog fails rather than returning a result.
C3_NotReadyUnlessReady ==
    (Recommended /\ ~IsReady(sys)) => ret.raised

\* C4: load fails whenever the payload has no provider list or the list is
\* empty, and then no catalog is stored: a step that is such a load raises
\* and leaves the stored dataset as it was.
C4_LoadRejectsEmpty ==
    [][ ( /\ ret'.op \in { "load", "load_file" }
          /\ ret'.fault = "none"
          /\ (~ret'.dataset.has_workers \/ ret'.dataset.workers = <<>>) )
        => (ret'.raised /\ sys'.dataset = sys.dataset) ]_vars

\* C5: for 1 <= k <= 20, recommend returns at most k records in
\* non-increasing score order, and they are the min(k, n) best of the n
\* scored eligible providers: each returned record is a scored one, no record
\* is returned twice, and no scored record left out has a larger score than
\* a returned one.
C5_TopKSorted ==
    (Recommended /\ ret.max_results \in 1..MaxResultsLimit) =>
        /\ Len(ret.value) <= ret.max_results
        /\ Len(ret.value) = Min(ret.max_results, Len(ScoredOfLatest))
        /\ \A i, j \in DOMAIN ret.value :
              i < j => /\ ret.value[i].score >= ret.value[j].score
                       /\ ret.value[i] # ret.value[j]
        /\ Range(ret.value) \subseteq Range(ScoredOfLatest)
        /\ \A x \in Range(ScoredOfLatest) \ Range(ret.value) :
              \A y \in Range(ret.value) : y.score >= x.score

\* C5 witness: a query with max_results = 1 on a catalog with two scored
\* providers of different scores, answered with the better one alone.
C5_Witness ==
    /\ Recommended /\ ret.max_results = 1
    /\ Len(ret.value) = 1
    /\ \E x \in Range(ScoredOfLatest) : x.score < ret.value[1].score

\* C6: the max_results value that reaches the truncation step of the engine
\* is within 1..20, and no response carries more than 20 workers, whatever
\* max_results the request carried.
C6_MaxResultsClamped ==
    \A t \in Threads :
        /\ (thr[t].pc = "search_respond")
              => (thr[t].max_results \in 1..MaxResultsLimit)
        /\ Len(thr[t].resp.workers) <= MaxResultsLimit

\* C7: every returned record has total_score >= 0 and a quality component
\* (what the rating contributes) between 0 and 10, whatever the rating.
C7_ScoreAndQualityInRange ==
    Recommended =>
        \A i \in DOMAIN ret.value :
            LET rec == ret.value[i]
                quality == rec.score - (rec.service_confidence * 7)
                             - Max(0, 200 - (rec.distance_km * 2))
            IN  rec.score >= 0 /\ quality >= 0 /\ quality <= 100

\* C8: of two returned providers with equal total_score, the one with the
\* smaller id comes first.
C8_TiesByIdAscending ==
    Recommended =>
        \A i, j \in DOMAIN ret.value :
            (i < j /\ ret.value[i].score = ret.value[j].score)
                => ret.value[i].worker.id < ret.value[j].worker.id

\* C9: a query that fails inside the engine (an exception in the try block,
\* or a dataset that cannot be processed) is surfaced as a failure and is
\* never answered like a query without eligible providers.
C9_FailureSurfaced ==
    (Recommended /\ ret.path \in { "exception", "no_dataset" })
        => ret.raised

\* no provider of the catalog is of a category with probability above 0.1
\* or of the first predicted category
NoEligibleProvider(workers, query) ==
    \A i \in DOMAIN workers :
        /\ CategoryProbability(query, workers[i].service_type) <= 10
        /\ workers[i].service_type # service_probs[query][1].service

\* C10: on a Ready engine whose catalog has no provider of a category with
\* probability above 0.1 and none of the first predicted category,
\* recommend returns the empty list and does not raise.
C10_NoEligibleGivesEmpty ==
    (Recommended /\ NoEligibleProvider(sys.dataset.workers, ret.query))
        => (~ret.raised /\ ret.value = <<>>)

\* C10 witness: a query on a non-empty catalog without eligible provider,
\* left by the 'No suitable workers found' return.
C10_Witness ==
    /\ Recommended /\ sys.dataset.workers # <<>>
    /\ NoEligibleProvider(sys.dataset.workers, ret.query)
    /\ ret.path = "no_workers"

====
